---------------------------- MODULE Spec2Model ----------------------------
(***************************************************************************)
(* Tick-driven process scheduling simulator: the engine of src/sched3.c    *)
(* (__do_simulation and its helpers) driving the eight policies of         *)
(* src/pa2.c (FIFO, SJF, SRTF, RR, Priority, Priority+Aging, PCP, PIP).    *)
(*                                                                         *)
(* Queues are the intrusive circular doubly-linked lists of the source:    *)
(* every process and every list head is a node with a next and a prev      *)
(* pointer, and the list operations are the pointer assignments they are   *)
(* in C, so that relinking a node that is still linked behaves as it does  *)
(* in the program.                                                         *)
(*                                                                         *)
(* fault records how a run left defined behaviour or stopped: a failed     *)
(* assert(), a list walk that never ends or that takes a list head for a   *)
(* process, a NULL dereference, a use of a freed process.  A run with a    *)
(* fault goes to pc = "abort" and takes no further step, except that the   *)
(* use of a freed process may also go on with the record as it was.        *)
(***************************************************************************)
EXTENDS Integers, Sequences, FiniteSets, TLC

(***************************************************************************)
(* Bounds of the model.                                                    *)
(***************************************************************************)
NrProcs == 2
MaxProcs == 3
MaxLifespan == 2
MaxStart == 1
MaxPlan == 1

(***************************************************************************)
(* Program constants.                                                      *)
(***************************************************************************)
MAX_PRIO == 2
NR_RESOURCES == 2
MIN_INIT == 1000

NULL == 0
\* the process records: the scripts have NrProcs processes, or MaxProcs where
\* a specification says so
Pids == 1..MaxProcs
Rids == 0..(NR_RESOURCES - 1)

readyqueue == MaxProcs + 1
__forkqueue == MaxProcs + 2
waitqueue(r) == MaxProcs + 3 + r
Heads == {readyqueue, __forkqueue} \cup {waitqueue(r) : r \in Rids}
Nodes == Pids \cup Heads

Policies == {"fifo", "sjf", "srtf", "rr", "prio", "pa", "pcp", "pip"}

VARIABLES
    policy,         \* sched: the scheduler selected on the command line
    lifespan,       \* process.lifespan
    prio_orig,      \* process.prio_orig
    starts_at,      \* process.__starts_at
    age,            \* process.age
    prio,           \* process.prio
    status,         \* process.status
    to_acquire,     \* process.__resources_to_acquire, in script order
    holding,        \* process.__resources_holding
    list_next,      \* list_head.next of every node
    list_prev,      \* list_head.prev of every node
    owner,          \* resources[r].owner
    current,        \* the process that is currently running
    prev,           \* __do_simulation's local prev
    ticks,          \* the tick counter
    ticks_cnt,      \* rr_schedule's call counter
    pc,             \* position in __do_simulation's loop body
    cursor,         \* position of the list_for_each_entry_safe in progress
    fault,          \* "none", or how the program stopped being defined
    freed,          \* processes passed to free()
    exit_tick,      \* per process, the ticks of its "X" events
    done_tick,      \* per process, the ticks in which age became lifespan
    wait_tick,      \* per process, the ticks of its "=" events
    queued_tick,    \* per process, the tick in which it last entered the ready queue
    event           \* what the last step did

vars == <<policy, lifespan, prio_orig, starts_at, age, prio, status,
          to_acquire, holding, list_next, list_prev, owner, current, prev,
          ticks, ticks_cnt, pc, cursor, fault, freed, exit_tick, done_tick,
          wait_tick, queued_tick, event>>


(***************************************************************************)
(* The machine state a policy callback works on: the fields of the process *)
(* records and of the list heads that pa2.c reads and writes.              *)
(***************************************************************************)
M == [nxt |-> list_next, prv |-> list_prev, status |-> status, age |-> age,
      prio |-> prio, owner |-> owner, fault |-> fault]

Fault(m, f) == IF m.fault = "none" THEN [m EXCEPT !.fault = f] ELSE m

(***************************************************************************)
(* list_head.h: the list operations, as the pointer assignments they are.  *)
(***************************************************************************)
__list_add(m, new, p, n) ==
    LET m1 == [m  EXCEPT !.prv[n] = new]
        m2 == [m1 EXCEPT !.nxt[new] = n]
        m3 == [m2 EXCEPT !.prv[new] = p]
    IN  [m3 EXCEPT !.nxt[p] = new]

list_add(m, new, head) == __list_add(m, new, head, m.nxt[head])

list_add_tail(m, new, head) == __list_add(m, new, m.prv[head], head)

__list_del(m, p, n) ==
    LET m1 == [m EXCEPT !.prv[n] = p]
    IN  [m1 EXCEPT !.nxt[p] = n]

list_del_init(m, entry) ==
    LET m1 == __list_del(m, m.prv[entry], m.nxt[entry])
    IN  [m1 EXCEPT !.nxt[entry] = entry, !.prv[entry] = entry]

list_move_tail(m, entry, head) ==
    list_add_tail(__list_del(m, m.prv[entry], m.nxt[entry]), entry, head)

list_empty(m, head) == m.nxt[head] = head

SeqRange(s) == {s[i] : i \in 1..Len(s)}

(***************************************************************************)
(* list_for_each(ptr, head): the entries met from head->next until the     *)
(* walk is back at head.  A walk that meets a node a second time never     *)
(* ends ("hang"); a walk that meets another list's head applies list_entry *)
(* to something that is no process ("wild").                               *)
(***************************************************************************)
RECURSIVE WalkFrom(_, _, _, _)
WalkFrom(nxt, head, n, acc) ==
    IF n = head THEN [ents |-> acc, end |-> "ok"]
    ELSE IF n \notin Pids THEN [ents |-> acc, end |-> "wild"]
    ELSE IF n \in SeqRange(acc) THEN [ents |-> acc, end |-> "hang"]
    ELSE WalkFrom(nxt, head, nxt[n], Append(acc, n))

list_for_each(m, head) == WalkFrom(m.nxt, head, m.nxt[head], <<>>)

\* list_first_entry(head): head->next taken as a process
list_first_entry(m, head) == m.nxt[head]


MinOf(S) == CHOOSE x \in S : \A y \in S : x <= y
MaxOf(S) == CHOOSE x \in S : \A y \in S : x >= y

\* the first entry of ents, in list order, that is in the set S (NULL: none)
FirstIn(ents, S) ==
    LET idx == {i \in 1..Len(ents) : ents[i] \in S}
    IN  IF idx = {} THEN NULL ELSE ents[MinOf(idx)]

LastOf(ents) == IF ents = <<>> THEN NULL ELSE ents[Len(ents)]

(***************************************************************************)
(* Resource callbacks.  An acquire returns the machine state and the       *)
(* boolean the callback returns.  A release returns the machine states     *)
(* after each of its stages, the last one being the state it returns with. *)
(***************************************************************************)
\* a variant of fcfs_acquire without the "if (!r->owner)" test
fcfs_acquire_unchecked(m, cur, r) ==
    [m |-> [m EXCEPT !.owner[r] = cur], ok |-> TRUE]

\* a variant of fcfs_acquire that grants a free resource without the
\* "r->owner = current"
fcfs_acquire_unowned(m, cur, r) ==
    IF m.owner[r] = NULL
    THEN [m |-> m, ok |-> TRUE]
    ELSE [m |-> list_add_tail([m EXCEPT !.status[cur] = "WAIT"], cur, waitqueue(r)),
          ok |-> FALSE]

fcfs_acquire(m, cur, r) ==
    IF m.owner[r] = NULL
    THEN [m |-> [m EXCEPT !.owner[r] = cur], ok |-> TRUE]
    ELSE [m |-> list_add_tail([m EXCEPT !.status[cur] = "WAIT"], cur, waitqueue(r)),
          ok |-> FALSE]

\* assert(waiter->status == PROCESS_WAIT); list_del_init; status; list_add_tail
WakeUp(m, waiter) ==
    IF waiter = NULL THEN Fault(m, "null_deref")
    ELSE IF waiter \notin Pids THEN Fault(m, "wild")
    ELSE IF m.status[waiter] # "WAIT" THEN Fault(m, "assert_waiter_status")
    ELSE list_add_tail([list_del_init(m, waiter) EXCEPT !.status[waiter] = "READY"],
                       waiter, readyqueue)

\* a variant of fcfs_release that wakes the waiter that came last
fcfs_release_last(m, cur, r) ==
    IF m.owner[r] # cur THEN <<Fault(m, "assert_release_owner")>>
    ELSE LET m1 == [m EXCEPT !.owner[r] = NULL]
         IN  IF list_empty(m1, waitqueue(r)) THEN <<m1, m1>>
             ELSE <<m1, WakeUp(m1, m1.prv[waitqueue(r)])>>

fcfs_release(m, cur, r) ==
    IF m.owner[r] # cur THEN <<Fault(m, "assert_release_owner")>>
    ELSE LET m1 == [m EXCEPT !.owner[r] = NULL]
         IN  IF list_empty(m1, waitqueue(r)) THEN <<m1, m1>>
             ELSE <<m1, WakeUp(m1, list_first_entry(m1, waitqueue(r)))>>

prio_acquire(m, cur, r) ==
    IF m.owner[r] = NULL
    THEN [m |-> list_add_tail([m EXCEPT !.owner[r] = cur, !.status[cur] = "WAIT"],
                              cur, readyqueue),
          ok |-> TRUE]
    ELSE [m |-> list_add_tail([m EXCEPT !.status[cur] = "WAIT"], cur, waitqueue(r)),
          ok |-> FALSE]

\* a variant of WakeHighest that wakes the head of the wait queue
WakeHighest_head(m, r) ==
    IF list_empty(m, waitqueue(r)) THEN m
    ELSE WakeUp(m, list_first_entry(m, waitqueue(r)))

\* the waiter of r with the largest prio, the first of them in list order
WakeHighest(m, r) ==
    LET w == list_for_each(m, waitqueue(r))
    IN  IF w.end # "ok" THEN Fault(m, w.end)
        ELSE IF list_empty(m, waitqueue(r)) THEN m
        ELSE LET max == MaxOf({0} \cup {m.prio[q] : q \in SeqRange(w.ents)})
             IN  WakeUp(m, FirstIn(w.ents, {q \in Pids : m.prio[q] = max}))

prio_release(m, cur, r) ==
    IF m.owner[r] # cur THEN <<Fault(m, "assert_release_owner")>>
    ELSE LET m1 == [m EXCEPT !.owner[r] = NULL]
         IN  <<m1, WakeHighest(m1, r)>>

pcp_acquire(m, cur, r) ==
    IF m.owner[r] = NULL
    THEN [m |-> list_add_tail([m EXCEPT !.owner[r] = cur, !.prio[cur] = MAX_PRIO,
                                        !.status[cur] = "WAIT"],
                              cur, readyqueue),
          ok |-> TRUE]
    ELSE [m |-> list_add_tail([m EXCEPT !.status[cur] = "WAIT"], cur, waitqueue(r)),
          ok |-> FALSE]

\* a variant of pcp_release that restores the priority after it has cleared
\* the ownership
pcp_release_late(m, cur, r) ==
    IF m.owner[r] # cur THEN <<Fault(m, "assert_release_owner")>>
    ELSE LET o  == m.owner[r]
             m1 == [m  EXCEPT !.owner[r] = NULL]
             m2 == [m1 EXCEPT !.prio[o] = prio_orig[o]]
         IN  <<m1, m2, WakeHighest(m2, r)>>

pcp_release(m, cur, r) ==
    IF m.owner[r] # cur THEN <<Fault(m, "assert_release_owner")>>
    ELSE LET o  == m.owner[r]
             m1 == [m  EXCEPT !.prio[o] = prio_orig[o]]
             m2 == [m1 EXCEPT !.owner[r] = NULL]
         IN  <<m1, m2, WakeHighest(m2, r)>>

\* a variant of pip_acquire that gives the owner the requester's prio whatever
\* the owner's prio is
pip_acquire_always(m, cur, r) ==
    IF m.owner[r] = NULL
    THEN [m |-> list_add_tail([m EXCEPT !.owner[r] = cur, !.status[cur] = "WAIT"],
                              cur, readyqueue),
          ok |-> TRUE]
    ELSE LET o  == m.owner[r]
             m1 == [m EXCEPT !.prio[o] = m.prio[cur]]
         IN  [m |-> list_add_tail([m1 EXCEPT !.status[cur] = "WAIT"], cur, waitqueue(r)),
              ok |-> FALSE]

pip_acquire(m, cur, r) ==
    IF m.owner[r] = NULL
    THEN [m |-> list_add_tail([m EXCEPT !.owner[r] = cur, !.status[cur] = "WAIT"],
                              cur, readyqueue),
          ok |-> TRUE]
    ELSE LET o  == m.owner[r]
             m1 == IF m.prio[o] < m.prio[cur]
                   THEN [m EXCEPT !.prio[o] = m.prio[cur]] ELSE m
         IN  [m |-> list_add_tail([m1 EXCEPT !.status[cur] = "WAIT"], cur, waitqueue(r)),
              ok |-> FALSE]

pip_release(m, cur, r) ==
    IF m.owner[r] # cur THEN <<Fault(m, "assert_release_owner")>>
    ELSE LET o  == m.owner[r]
             m1 == [m  EXCEPT !.prio[o] = prio_orig[o]]
             m2 == [m1 EXCEPT !.owner[r] = NULL]
         IN  <<m1, m2, WakeHighest(m2, r)>>

\* sched->acquire and sched->release of the selected scheduler
sched_acquire(m, cur, r) ==
    CASE policy \in {"fifo", "sjf", "srtf", "rr"} -> fcfs_acquire(m, cur, r)
      [] policy \in {"prio", "pa"} -> prio_acquire(m, cur, r)
      [] policy = "pcp" -> pcp_acquire(m, cur, r)
      [] policy = "pip" -> pip_acquire(m, cur, r)

sched_release(m, cur, r) ==
    CASE policy \in {"fifo", "sjf", "srtf", "rr"} -> fcfs_release(m, cur, r)
      [] policy \in {"prio", "pa"} -> prio_release(m, cur, r)
      [] policy = "pcp" -> pcp_release(m, cur, r)
      [] policy = "pip" -> pip_release(m, cur, r)


(***************************************************************************)
(* Schedulers.  Each returns the machine state it leaves and the process   *)
(* it returns (NULL: none).                                                *)
(***************************************************************************)
Ret(m, p) == [m |-> m, ret |-> p]

\* if (!current || current->status == PROCESS_WAIT) goto pick_next;
\* if (current->age < current->lifespan) ...
KeepsCurrent(m, cur) ==
    /\ cur # NULL
    /\ m.status[cur] # "WAIT"
    /\ m.age[cur] < lifespan[cur]

\* list_del_init(&p->list); return p;
Take(m, p) ==
    IF p = NULL THEN Ret(Fault(m, "null_deref"), NULL)
    ELSE IF p \notin Pids THEN Ret(Fault(m, "wild"), NULL)
    ELSE Ret(list_del_init(m, p), p)

\* pick_next of fifo_schedule and rr_schedule: the first of the ready queue
PickFirst(m) ==
    IF list_empty(m, readyqueue) THEN Ret(m, NULL)
    ELSE Take(m, list_first_entry(m, readyqueue))

\* a variant of fifo_schedule without the "return current" of a runner that has
\* work left
fifo_schedule_pick(m, cur) == PickFirst(m)

fifo_schedule(m, cur) ==
    IF KeepsCurrent(m, cur) THEN Ret(m, cur) ELSE PickFirst(m)

\* the value of min after the loops "if (min > prc->lifespan) min = ..."
MinLifespan(ents) == MinOf({MIN_INIT} \cup {lifespan[q] : q \in SeqRange(ents)})

\* a variant of PickShortest that takes the first process of the ready queue
PickShortest_first(m) == PickFirst(m)

\* pick_next of sjf_schedule and srtf_schedule
PickShortest(m) ==
    LET w == list_for_each(m, readyqueue)
    IN  IF w.end # "ok" THEN Ret(Fault(m, w.end), NULL)
        ELSE IF Len(w.ents) = 0 THEN Ret(m, NULL)
        ELSE LET min   == MinLifespan(w.ents)
                 found == FirstIn(w.ents, {q \in Pids : lifespan[q] = min})
             IN  IF found # NULL THEN Take(m, found)
                 ELSE Ret(m, LastOf(w.ents))

\* a variant of sjf_schedule that picks the shortest ready process also when
\* the runner has work left
sjf_schedule_pick(m, cur) == PickShortest(m)

sjf_schedule(m, cur) ==
    IF KeepsCurrent(m, cur) THEN Ret(m, cur) ELSE PickShortest(m)

\* a variant of srtf_schedule that also preempts for a ready process whose
\* lifespan equals the remaining time of the runner
srtf_schedule_le(m, cur) ==
    LET w == list_for_each(m, readyqueue)
    IN  IF w.end # "ok" THEN Ret(Fault(m, w.end), NULL)
        ELSE IF ~KeepsCurrent(m, cur) THEN PickShortest(m)
        ELSE LET min        == MinLifespan(w.ents)
                 cur_remain == lifespan[cur] - m.age[cur]
                 found      == FirstIn(w.ents, {q \in Pids : lifespan[q] = min})
             IN  IF ~(min <= cur_remain) THEN Ret(m, cur)
                 ELSE IF found # NULL
                      THEN Ret(list_add(list_del_init(m, found), cur, readyqueue), found)
                      ELSE PickShortest(m)

srtf_schedule(m, cur) ==
    LET w == list_for_each(m, readyqueue)
    IN  IF w.end # "ok" THEN Ret(Fault(m, w.end), NULL)
        ELSE IF ~KeepsCurrent(m, cur) THEN PickShortest(m)
        ELSE LET min        == MinLifespan(w.ents)
                 cur_remain == lifespan[cur] - m.age[cur]
                 found      == FirstIn(w.ents, {q \in Pids : lifespan[q] = min})
             IN  IF ~(min < cur_remain) THEN Ret(m, cur)
                 ELSE IF found # NULL
                      THEN Ret(list_add(list_del_init(m, found), cur, readyqueue), found)
                      ELSE PickShortest(m)

\* a variant of rr_schedule that puts the preempted process at the head of the
\* ready queue
rr_schedule_front(m, cur, tc) ==
    IF ~KeepsCurrent(m, cur) THEN PickFirst(m)
    ELSE IF ticks = tc /\ ~list_empty(m, readyqueue)
         THEN LET t == Take(m, list_first_entry(m, readyqueue))
              IN  IF t.ret = NULL THEN t
                  ELSE Ret(list_add(t.m, cur, readyqueue), t.ret)
         ELSE Ret(m, cur)

\* a variant of rr_schedule that does not put the preempted process back into
\* the ready queue
rr_schedule_drop(m, cur, tc) ==
    IF ~KeepsCurrent(m, cur) THEN PickFirst(m)
    ELSE IF ticks = tc /\ ~list_empty(m, readyqueue)
         THEN Take(m, list_first_entry(m, readyqueue))
         ELSE Ret(m, cur)

\* tc is ticks_cnt after the ticks_cnt++ of this call
rr_schedule(m, cur, tc) ==
    IF ~KeepsCurrent(m, cur) THEN PickFirst(m)
    ELSE IF ticks = tc /\ ~list_empty(m, readyqueue)
         THEN LET t == Take(m, list_first_entry(m, readyqueue))
              IN  IF t.ret = NULL THEN t
                  ELSE Ret(list_add_tail(t.m, cur, readyqueue), t.ret)
         ELSE Ret(m, cur)

\* a variant of MaxPrio that yields the smallest prio of the entries
MaxPrio_smallest(m, ents) == MinOf({MAX_PRIO} \cup {m.prio[q] : q \in SeqRange(ents)})

\* the value of max after the loops "if (max < prc->prio) max = prc->prio"
MaxPrio(m, ents) == MaxOf({0} \cup {m.prio[q] : q \in SeqRange(ents)})

prio_schedule(m, cur) ==
    IF KeepsCurrent(m, cur) THEN Ret(m, cur)
    ELSE LET w == list_for_each(m, readyqueue)
         IN  IF w.end # "ok" THEN Ret(Fault(m, w.end), NULL)
             ELSE IF Len(w.ents) = 0 THEN Ret(m, NULL)
             ELSE LET max   == MaxPrio(m, w.ents)
                      found == FirstIn(w.ents, {q \in Pids : m.prio[q] = max})
                  IN  IF found # NULL THEN Take(m, found)
                      ELSE Ret(m, LastOf(w.ents))

\* a variant of AgeUp without the test prc->prio < MAX_PRIO
AgeUp_uncapped(m, S) ==
    [m EXCEPT !.prio = [q \in Pids |-> IF q \in S THEN m.prio[q] + 1 ELSE m.prio[q]]]

\* a variant of AgeUp that leaves every prio as it is
AgeUp_never(m, S) == m

\* "if (prc->prio < MAX_PRIO) prc->prio++" for every process of the set S
AgeUp(m, S) ==
    [m EXCEPT !.prio = [q \in Pids |->
        IF q \in S /\ m.prio[q] < MAX_PRIO THEN m.prio[q] + 1 ELSE m.prio[q]]]

\* list_del_init(&next->list); next->prio = next->prio_orig; return next;
TakeReset(m, p) ==
    IF p = NULL THEN Ret(Fault(m, "null_deref"), NULL)
    ELSE Ret([list_del_init(m, p) EXCEPT !.prio[p] = prio_orig[p]], p)

\* pick_next of pa_schedule; cnt is the count taken on entry
pa_pick(m, cnt) ==
    IF cnt = 0 THEN Ret(m, NULL)
    ELSE LET w == list_for_each(m, readyqueue)
         IN  IF w.end # "ok" THEN Ret(Fault(m, w.end), NULL)
             ELSE LET max  == MaxPrio(m, w.ents)
                      next == FirstIn(w.ents, {q \in Pids : m.prio[q] = max})
                  IN  TakeReset(AgeUp(m, SeqRange(w.ents) \ {next}), next)

\* a variant of pa_schedule that preempts the runner only for a ready process
\* of higher prio
pa_schedule_lt(m, cur) ==
    LET w   == list_for_each(m, readyqueue)
        cnt == Len(w.ents)
    IN  IF w.end # "ok" THEN Ret(Fault(m, w.end), NULL)
        ELSE IF ~KeepsCurrent(m, cur) THEN pa_pick(m, cnt)
        ELSE IF cnt # 0 /\ m.prio[cur] < MaxPrio(m, w.ents)
             THEN pa_pick(list_add_tail(m, cur, readyqueue), cnt)
             ELSE LET m1 == IF cnt # 0 THEN AgeUp(m, SeqRange(w.ents)) ELSE m
                  IN  Ret([m1 EXCEPT !.prio[cur] = prio_orig[cur]], cur)

pa_schedule(m, cur) ==
    LET w   == list_for_each(m, readyqueue)
        cnt == Len(w.ents)
    IN  IF w.end # "ok" THEN Ret(Fault(m, w.end), NULL)
        ELSE IF ~KeepsCurrent(m, cur) THEN pa_pick(m, cnt)
        ELSE IF cnt # 0 /\ m.prio[cur] <= MaxPrio(m, w.ents)
             THEN pa_pick(list_add_tail(m, cur, readyqueue), cnt)
             ELSE LET m1 == IF cnt # 0 THEN AgeUp(m, SeqRange(w.ents)) ELSE m
                  IN  Ret([m1 EXCEPT !.prio[cur] = prio_orig[cur]], cur)

\* pick_next of pcp_schedule; cnt is the count taken on entry
pcp_pick(m, cnt) ==
    IF cnt = 0 THEN Ret(m, NULL)
    ELSE LET w == list_for_each(m, readyqueue)
         IN  IF w.end # "ok" THEN Ret(Fault(m, w.end), NULL)
             ELSE LET max  == MaxPrio(m, w.ents)
                      next == FirstIn(w.ents, {q \in Pids : m.prio[q] = max})
                  IN  TakeReset(m, next)

pcp_schedule(m, cur) ==
    LET w   == list_for_each(m, readyqueue)
        cnt == Len(w.ents)
    IN  IF w.end # "ok" THEN Ret(Fault(m, w.end), NULL)
        ELSE IF ~KeepsCurrent(m, cur) THEN pcp_pick(m, cnt)
        ELSE IF cnt # 0 /\ m.prio[cur] <= MaxPrio(m, w.ents)
             THEN pcp_pick(list_add_tail(m, cur, readyqueue), cnt)
             ELSE Ret([m EXCEPT !.prio[cur] = prio_orig[cur]], cur)

\* sched->schedule of the selected scheduler
sched_schedule(m, cur, tc) ==
    CASE policy = "fifo" -> fifo_schedule(m, cur)
      [] policy = "sjf"  -> sjf_schedule(m, cur)
      [] policy = "srtf" -> srtf_schedule(m, cur)
      [] policy = "rr"   -> rr_schedule(m, cur, tc)
      [] policy = "prio" -> prio_schedule(m, cur)
      [] policy = "pa"   -> pa_schedule(m, cur)
      [] policy \in {"pcp", "pip"} -> pcp_schedule(m, cur)


(***************************************************************************)
(* The engine: one action per step of __do_simulation's loop body.         *)
(***************************************************************************)
Commit(m) ==
    /\ list_next' = m.nxt
    /\ list_prev' = m.prv
    /\ status' = m.status
    /\ age' = m.age
    /\ prio' = m.prio
    /\ owner' = m.owner
    /\ fault' = m.fault

Fixed == <<policy, lifespan, prio_orig, starts_at>>

NoStage == [owner |-> NULL, prio |-> 0, fault |-> "none", waiters |-> <<>>]

NoEvent == [kind |-> "none", pid |-> NULL, rid |-> 0, ok |-> TRUE,
            was |-> NoStage, stages |-> <<>>]

\* a variant of ForkLoop that forks a process one round after its start tick
RECURSIVE ForkLoop_late(_, _, _, _)
ForkLoop_late(m, p, tmp, fuel) ==
    IF p = __forkqueue THEN m
    ELSE IF p \notin Pids THEN Fault(m, "wild")
    ELSE IF fuel = 0 THEN Fault(m, "hang")
    ELSE LET m1 == IF starts_at[p] < ticks
                   THEN [list_move_tail(m, p, readyqueue) EXCEPT !.status[p] = "READY"]
                   ELSE m
         IN  ForkLoop_late(m1, tmp, m1.nxt[tmp], fuel - 1)

\* list_for_each_entry_safe(p, tmp, &__forkqueue, list) of __fork_on_schedule
RECURSIVE ForkLoop(_, _, _, _)
ForkLoop(m, p, tmp, fuel) ==
    IF p = __forkqueue THEN m
    ELSE IF p \notin Pids THEN Fault(m, "wild")
    ELSE IF fuel = 0 THEN Fault(m, "hang")
    ELSE LET m1 == IF starts_at[p] <= ticks
                   THEN [list_move_tail(m, p, readyqueue) EXCEPT !.status[p] = "READY"]
                   ELSE m
         IN  ForkLoop(m1, tmp, m1.nxt[tmp], fuel - 1)

\* the processes linked into the ready queue of the machine state m
Ready(m) == SeqRange(list_for_each(m, readyqueue).ents)

\* history: the tick of the step that links a process into the ready queue
Enqueued ==
    queued_tick' = [p \in Pids |->
        IF p \in Ready(M') /\ p \notin Ready(M) THEN ticks ELSE queued_tick[p]]

__fork_on_schedule(m) ==
    LET p == m.nxt[__forkqueue]
    IN  ForkLoop(m, p, m.nxt[p], MaxProcs + 1)

Fork ==
    /\ pc = "fork"
    /\ LET m == __fork_on_schedule(M)
       IN  /\ Commit(m)
           /\ pc' = IF m.fault = "none" THEN "schedule" ELSE "abort"
    /\ event' = [NoEvent EXCEPT !.kind = "fork"]
    /\ UNCHANGED <<Fixed, to_acquire, holding, current, prev, ticks, ticks_cnt,
                   cursor, freed, exit_tick, done_tick, wait_tick>>
    /\ Enqueued

\* prev = current; current = sched->schedule();
Schedule ==
    /\ pc = "schedule"
    /\ LET tc == IF policy = "rr" THEN ticks_cnt + 1 ELSE ticks_cnt
           r  == sched_schedule(M, current, tc)
       IN  /\ Commit(r.m)
           /\ ticks_cnt' = tc
           /\ prev' = current
           /\ current' = IF r.m.fault = "none" THEN r.ret ELSE current
           /\ pc' = IF r.m.fault = "none" THEN "retire" ELSE "abort"
           /\ event' = [NoEvent EXCEPT !.kind = "schedule", !.pid = r.ret]
    /\ UNCHANGED <<Fixed, to_acquire, holding, ticks, cursor, freed, exit_tick,
                   done_tick, wait_tick>>
    /\ Enqueued

\* the assertion of __exit_process that fails for p ("none": they all hold)
ExitAssert(m, p) ==
    IF ~list_empty(m, p) THEN "assert_exit_list"
    ELSE IF holding[p] # <<>> THEN "assert_exit_holding"
    ELSE IF to_acquire[p] # <<>> THEN "assert_exit_acquire"
    ELSE "none"

\* if (prev) { ... } of __do_simulation.  After free(prev) a current that is
\* prev dangles, and the engine goes on to write and read through it: the
\* program either stops there or goes on with the record as it was.
Retire ==
    /\ pc = "retire"
    /\ LET m1 == IF prev # NULL /\ status[prev] = "RUNNING"
                 THEN [M EXCEPT !.status[prev] = "READY"] ELSE M
           exits == prev # NULL /\ age[prev] = lifespan[prev]
           m2 == IF exits THEN [m1 EXCEPT !.status[prev] = "EXIT"] ELSE m1
           a  == IF exits THEN ExitAssert(m2, prev) ELSE "none"
       IN  IF a # "none"
           THEN /\ Commit(Fault(m2, a))
                /\ pc' = "abort"
                /\ UNCHANGED <<freed, exit_tick>>
                /\ event' = [NoEvent EXCEPT !.kind = "retire", !.pid = prev, !.ok = FALSE]
           ELSE /\ freed' = IF exits THEN freed \cup {prev} ELSE freed
                /\ exit_tick' = IF exits
                                THEN [exit_tick EXCEPT ![prev] = Append(@, ticks)]
                                ELSE exit_tick
                /\ event' = [NoEvent EXCEPT !.kind = IF exits THEN "exit" ELSE "retire",
                                            !.pid = prev]
                /\ \E stops \in IF exits /\ current = prev THEN BOOLEAN ELSE {FALSE} :
                      IF stops
                      THEN Commit(Fault(m2, "use_after_free")) /\ pc' = "abort"
                      ELSE Commit(m2) /\ pc' = "dispatch"
    /\ UNCHANGED <<Fixed, to_acquire, holding, current, prev, ticks, ticks_cnt,
                   cursor, done_tick, wait_tick>>
    /\ Enqueued

\* if (!current) { if (list_empty(&readyqueue) && list_empty(&__forkqueue)) break;
\*                 idle; }
\* else { current->status = PROCESS_RUNNING; assert(list_empty(&current->list)); ...
Dispatch ==
    /\ pc = "dispatch"
    /\ IF current = NULL
       THEN /\ IF list_empty(M, readyqueue) /\ list_empty(M, __forkqueue)
               THEN /\ pc' = "done"
                    /\ ticks' = ticks
                    /\ event' = [NoEvent EXCEPT !.kind = "break"]
               ELSE /\ pc' = "fork"
                    /\ ticks' = ticks + 1
                    /\ event' = [NoEvent EXCEPT !.kind = "idle"]
            /\ UNCHANGED <<age, prio, status, list_next, list_prev, owner, fault>>
       ELSE /\ LET m1 == [M EXCEPT !.status[current] = "RUNNING"]
                   m2 == IF list_empty(m1, current) THEN m1
                         ELSE Fault(m1, "assert_current_list")
               IN  /\ Commit(m2)
                   /\ pc' = IF m2.fault = "none" THEN "acquire" ELSE "abort"
            /\ ticks' = ticks
            /\ event' = [NoEvent EXCEPT !.kind = "run", !.pid = current]
    /\ cursor' = 1
    /\ UNCHANGED <<Fixed, to_acquire, holding, current, prev, ticks_cnt, freed,
                   exit_tick, done_tick, wait_tick>>
    /\ Enqueued

\* the positions, from the cursor on, of the entries with rs->at == current->age
Due == {i \in cursor..Len(to_acquire[current]) : to_acquire[current][i].at = age[current]}

RemoveAt(s, i) == SubSeq(s, 1, i - 1) \o SubSeq(s, i + 1, Len(s))

\* a variant of RunAcquire in which the process ages also in a tick in which an
\* acquisition fails
RunAcquire_ages ==
    /\ pc = "acquire"
    /\ IF Due # {}
       THEN LET i  == MinOf(Due)
                rs == to_acquire[current][i]
                a  == sched_acquire(M, current, rs.resource_id)
            IN  /\ Commit(IF a.ok THEN a.m ELSE [a.m EXCEPT !.age[current] = @ + 1])
                /\ event' = [NoEvent EXCEPT !.kind = "acquire", !.pid = current,
                                            !.rid = rs.resource_id, !.ok = a.ok]
                /\ IF a.ok
                   THEN /\ to_acquire' = [to_acquire EXCEPT ![current] = RemoveAt(@, i)]
                        /\ holding' = [holding EXCEPT ![current] = Append(@, rs)]
                        /\ cursor' = i
                        /\ pc' = "acquire"
                        /\ ticks' = ticks
                        /\ UNCHANGED wait_tick
                   ELSE /\ UNCHANGED <<to_acquire, holding>>
                        /\ wait_tick' = [wait_tick EXCEPT ![current] = Append(@, ticks)]
                        /\ cursor' = 1
                        /\ pc' = "fork"
                        /\ ticks' = ticks + 1
                /\ UNCHANGED done_tick
       ELSE /\ age' = [age EXCEPT ![current] = @ + 1]
            /\ done_tick' = IF age[current] + 1 = lifespan[current]
                            THEN [done_tick EXCEPT ![current] = Append(@, ticks)]
                            ELSE done_tick
            /\ pc' = "release"
            /\ cursor' = 1
            /\ event' = [NoEvent EXCEPT !.kind = "progress", !.pid = current]
            /\ UNCHANGED <<prio, status, to_acquire, holding, list_next, list_prev,
                           owner, ticks, fault, wait_tick>>
    /\ UNCHANGED <<Fixed, current, prev, ticks_cnt, freed, exit_tick>>
    /\ Enqueued

\* a variant of RunAcquire in which the loop goes on to the next entry after an
\* acquisition that fails
RunAcquire_goes_on ==
    /\ pc = "acquire"
    /\ IF Due # {}
       THEN LET i  == MinOf(Due)
                rs == to_acquire[current][i]
                a  == sched_acquire(M, current, rs.resource_id)
            IN  /\ Commit(a.m)
                /\ event' = [NoEvent EXCEPT !.kind = "acquire", !.pid = current,
                                            !.rid = rs.resource_id, !.ok = a.ok]
                /\ IF a.ok
                   THEN /\ to_acquire' = [to_acquire EXCEPT ![current] = RemoveAt(@, i)]
                        /\ holding' = [holding EXCEPT ![current] = Append(@, rs)]
                        /\ cursor' = i
                        /\ pc' = "acquire"
                        /\ ticks' = ticks
                        /\ UNCHANGED wait_tick
                   ELSE /\ UNCHANGED <<to_acquire, holding>>
                        /\ wait_tick' = [wait_tick EXCEPT ![current] = Append(@, ticks)]
                        /\ cursor' = i + 1
                        /\ pc' = "acquire"
                        /\ ticks' = ticks
                /\ UNCHANGED done_tick
       ELSE /\ age' = [age EXCEPT ![current] = @ + 1]
            /\ done_tick' = IF age[current] + 1 = lifespan[current]
                            THEN [done_tick EXCEPT ![current] = Append(@, ticks)]
                            ELSE done_tick
            /\ pc' = "release"
            /\ cursor' = 1
            /\ event' = [NoEvent EXCEPT !.kind = "progress", !.pid = current]
            /\ UNCHANGED <<prio, status, to_acquire, holding, list_next, list_prev,
                           owner, ticks, fault, wait_tick>>
    /\ UNCHANGED <<Fixed, current, prev, ticks_cnt, freed, exit_tick>>
    /\ Enqueued

\* One round of the loop of __run_current_acquire: the sched->acquire() call
\* for the next due entry; on failure the tick ends ("=" event, ticks++).
\* With no due entry left the loop returns true and current->age++ follows.
RunAcquire ==
    /\ pc = "acquire"
    /\ IF Due # {}
       THEN LET i  == MinOf(Due)
                rs == to_acquire[current][i]
                a  == sched_acquire(M, current, rs.resource_id)
            IN  /\ Commit(a.m)
                /\ event' = [NoEvent EXCEPT !.kind = "acquire", !.pid = current,
                                            !.rid = rs.resource_id, !.ok = a.ok]
                /\ IF a.ok
                   THEN /\ to_acquire' = [to_acquire EXCEPT ![current] = RemoveAt(@, i)]
                        /\ holding' = [holding EXCEPT ![current] = Append(@, rs)]
                        /\ cursor' = i
                        /\ pc' = "acquire"
                        /\ ticks' = ticks
                        /\ UNCHANGED wait_tick
                   ELSE /\ UNCHANGED <<to_acquire, holding>>
                        /\ wait_tick' = [wait_tick EXCEPT ![current] = Append(@, ticks)]
                        /\ cursor' = 1
                        /\ pc' = "fork"
                        /\ ticks' = ticks + 1
                /\ UNCHANGED done_tick
       ELSE /\ age' = [age EXCEPT ![current] = @ + 1]
            /\ done_tick' = IF age[current] + 1 = lifespan[current]
                            THEN [done_tick EXCEPT ![current] = Append(@, ticks)]
                            ELSE done_tick
            /\ pc' = "release"
            /\ cursor' = 1
            /\ event' = [NoEvent EXCEPT !.kind = "progress", !.pid = current]
            /\ UNCHANGED <<prio, status, to_acquire, holding, list_next, list_prev,
                           owner, ticks, fault, wait_tick>>
    /\ UNCHANGED <<Fixed, current, prev, ticks_cnt, freed, exit_tick>>
    /\ Enqueued

\* what a claim may ask of a stage of a release
Stage(m, cur, r) ==
    [owner |-> m.owner[r], prio |-> m.prio[cur], fault |-> m.fault,
     waiters |-> list_for_each(m, waitqueue(r)).ents]

\* a variant of RunRelease that leaves the entry of a released resource in the
\* held entries
RunRelease_keeps ==
    /\ pc = "release"
    /\ IF cursor <= Len(holding[current])
       THEN LET rs == holding[current][cursor]
                d  == rs.duration - 1
                st == sched_release(M, current, rs.resource_id)
                m  == st[Len(st)]
            IN  /\ IF d # 0
                   THEN /\ holding' = [holding EXCEPT ![current][cursor].duration = d]
                        /\ cursor' = cursor + 1
                        /\ pc' = "release"
                        /\ event' = [NoEvent EXCEPT !.kind = "hold", !.pid = current,
                                                    !.rid = rs.resource_id]
                        /\ UNCHANGED <<age, prio, status, list_next, list_prev, owner,
                                       fault>>
                   ELSE /\ Commit(m)
                        /\ event' = [NoEvent EXCEPT !.kind = "release", !.pid = current,
                                        !.rid = rs.resource_id, !.ok = (m.fault = "none"),
                                        !.was = Stage(M, current, rs.resource_id),
                                        !.stages = [k \in 1..Len(st) |->
                                                      Stage(st[k], current, rs.resource_id)]]
                        /\ IF m.fault = "none"
                           THEN /\ holding' = [holding EXCEPT ![current][cursor].duration = d]
                                /\ pc' = "release"
                                /\ cursor' = cursor + 1
                           ELSE /\ holding' = [holding EXCEPT ![current][cursor].duration = d]
                                /\ pc' = "abort"
                                /\ cursor' = cursor
                /\ ticks' = ticks
       ELSE /\ ticks' = ticks + 1
            /\ pc' = "fork"
            /\ cursor' = 1
            /\ event' = [NoEvent EXCEPT !.kind = "tick"]
            /\ UNCHANGED <<age, prio, status, holding, list_next, list_prev, owner, fault>>
    /\ UNCHANGED <<Fixed, to_acquire, current, prev, ticks_cnt, freed, exit_tick,
                   done_tick, wait_tick>>
    /\ Enqueued

\* One round of the loop of __run_current_release: --rs->duration, and the
\* sched->release() call and the removal of the entry when it reaches 0.
\* At the end of the loop the tick ends (ticks++).
RunRelease ==
    /\ pc = "release"
    /\ IF cursor <= Len(holding[current])
       THEN LET rs == holding[current][cursor]
                d  == rs.duration - 1
                st == sched_release(M, current, rs.resource_id)
                m  == st[Len(st)]
            IN  /\ IF d # 0
                   THEN /\ holding' = [holding EXCEPT ![current][cursor].duration = d]
                        /\ cursor' = cursor + 1
                        /\ pc' = "release"
                        /\ event' = [NoEvent EXCEPT !.kind = "hold", !.pid = current,
                                                    !.rid = rs.resource_id]
                        /\ UNCHANGED <<age, prio, status, list_next, list_prev, owner,
                                       fault>>
                   ELSE /\ Commit(m)
                        /\ event' = [NoEvent EXCEPT !.kind = "release", !.pid = current,
                                        !.rid = rs.resource_id, !.ok = (m.fault = "none"),
                                        !.was = Stage(M, current, rs.resource_id),
                                        !.stages = [k \in 1..Len(st) |->
                                                      Stage(st[k], current, rs.resource_id)]]
                        /\ IF m.fault = "none"
                           THEN /\ holding' = [holding EXCEPT ![current] = RemoveAt(@, cursor)]
                                /\ pc' = "release"
                           ELSE /\ holding' = [holding EXCEPT ![current][cursor].duration = d]
                                /\ pc' = "abort"
                        /\ cursor' = cursor
                /\ ticks' = ticks
       ELSE /\ ticks' = ticks + 1
            /\ pc' = "fork"
            /\ cursor' = 1
            /\ event' = [NoEvent EXCEPT !.kind = "tick"]
            /\ UNCHANGED <<age, prio, status, holding, list_next, list_prev, owner, fault>>
    /\ UNCHANGED <<Fixed, to_acquire, current, prev, ticks_cnt, freed, exit_tick,
                   done_tick, wait_tick>>
    /\ Enqueued

Next ==
    \/ Fork
    \/ Schedule
    \/ Retire
    \/ Dispatch
    \/ RunAcquire
    \/ RunRelease

(***************************************************************************)
(* Scripts.  A descriptor is what __load_script reads for one process; a   *)
(* script is a sequence of descriptors, and its processes get the pids     *)
(* 1, 2, ... and are put on the fork queue in script order.                *)
(***************************************************************************)
\* duration is rs->duration, which __run_current_release counts down; declared
\* keeps the duration as the script gave it
Entry(r, a, d) == [resource_id |-> r, at |-> a, duration |-> d, declared |-> d]

\* the acquisition entries that fit in a lifespan of l ticks
Entries(l) ==
    {e \in {Entry(r, a, d) : r \in Rids, a \in 0..l, d \in 1..l} :
        e.at + e.duration <= l}

\* the plans of at most maxLen entries
Plans(l, maxLen) == {<<>>} \cup UNION {[1..n -> Entries(l)] : n \in 1..maxLen}

Descriptors(lifespans, prios, starts, maxLen) ==
    UNION {[lifespan : {l}, prio : prios, start : starts, plan : Plans(l, maxLen)]
           : l \in lifespans}

\* the scripts of n processes, each drawn from the set of descriptors D
ScriptsOf(n, D) == [1..n -> D]

\* the processes of the script (the others are never loaded)
Loaded == {p \in Pids : starts_at[p] >= 0}

\* the list heads after __initialize and __load_script of a script of n
\* processes
LoadedNext(n) == [x \in Nodes |->
    IF x = __forkqueue THEN 1
    ELSE IF x \in 1..n THEN (IF x = n THEN __forkqueue ELSE x + 1)
    ELSE x]

LoadedPrev(n) == [x \in Nodes |->
    IF x = __forkqueue THEN n
    ELSE IF x \in 1..n THEN (IF x = 1 THEN __forkqueue ELSE x - 1)
    ELSE x]

InitWith(policies, scripts) ==
    /\ policy \in policies
    /\ \E sc \in scripts :
          LET n == Len(sc)
          IN  /\ lifespan = [p \in Pids |-> IF p <= n THEN sc[p].lifespan ELSE 0]
              /\ prio_orig = [p \in Pids |-> IF p <= n THEN sc[p].prio ELSE 0]
              /\ prio = [p \in Pids |-> IF p <= n THEN sc[p].prio ELSE 0]
              /\ starts_at = [p \in Pids |-> IF p <= n THEN sc[p].start ELSE -1]
              /\ to_acquire = [p \in Pids |-> IF p <= n THEN sc[p].plan ELSE <<>>]
              /\ list_next = LoadedNext(n)
              /\ list_prev = LoadedPrev(n)
    /\ age = [p \in Pids |-> 0]
    /\ status = [p \in Pids |-> "READY"]
    /\ holding = [p \in Pids |-> <<>>]
    /\ owner = [r \in Rids |-> NULL]
    /\ current = NULL
    /\ prev = NULL
    /\ ticks = 0
    /\ ticks_cnt = -1
    /\ pc = "fork"
    /\ cursor = 1
    /\ fault = "none"
    /\ freed = {}
    /\ exit_tick = [p \in Pids |-> <<>>]
    /\ done_tick = [p \in Pids |-> <<>>]
    /\ wait_tick = [p \in Pids |-> <<>>]
    /\ queued_tick = [p \in Pids |-> -1]
    /\ event = NoEvent

\* the policies that never read prio run the scripts with every prio 0
FcfsPolicies == {"fifo", "sjf", "srtf", "rr"}
PrioPolicies == {"prio", "pa", "pcp", "pip"}

Init ==
    \/ InitWith(FcfsPolicies,
                ScriptsOf(NrProcs, Descriptors(0..MaxLifespan, {0}, 0..MaxStart, MaxPlan)))
    \/ InitWith(PrioPolicies,
                ScriptsOf(NrProcs, Descriptors(0..MaxLifespan, 0..MAX_PRIO, 0..MaxStart, MaxPlan)))

Spec == Init /\ [][Next]_vars

\* PCP on scripts with longer lifespans, and so longer holds
MaxLong == 3

InitPcp ==
    InitWith({"pcp"},
             ScriptsOf(NrProcs, Descriptors(1..MaxLong, 0..MAX_PRIO, 0..MaxStart, MaxPlan)))

SpecPcp == InitPcp /\ [][Next]_vars

\* PIP on scripts whose processes ask for several resources
MaxPlanPip == 2

InitPip ==
    InitWith({"pip"},
             ScriptsOf(NrProcs, Descriptors(1..MaxLifespan, 0..MAX_PRIO, 0..MaxStart,
                                            MaxPlanPip)))

SpecPip == InitPip /\ [][Next]_vars

\* The FCFS policies on scripts whose processes ask for several resources, and
\* on scripts of MaxProcs processes
MaxPlanFcfs == 2

InitFcfs ==
    \/ InitWith(FcfsPolicies,
                ScriptsOf(NrProcs, Descriptors(1..MaxLifespan, {0}, 0..MaxStart,
                                               MaxPlanFcfs)))
    \/ InitWith(FcfsPolicies,
                ScriptsOf(MaxProcs, Descriptors(1..MaxLifespan, {0}, 0..MaxStart,
                                                MaxPlan)))

SpecFcfs == InitFcfs /\ [][Next]_vars

\* FIFO on the scripts in which every process has the same start tick and asks
\* for resource 0 at age 0
Requests(d, r, a) ==
    \E i \in 1..Len(d.plan) : d.plan[i].resource_id = r /\ d.plan[i].at = a

InitRace ==
    InitWith({"fifo"},
             {sc \in ScriptsOf(NrProcs, Descriptors(1..MaxLifespan, {0}, 0..MaxStart,
                                                    MaxPlanFcfs)) :
                 \A p \in 1..NrProcs : /\ sc[p].start = sc[1].start
                                       /\ Requests(sc[p], 0, 0)})

SpecRace == InitRace /\ [][Next]_vars

\* Scripts without acquisitions, with longer lifespans and later starts
MaxWork == 5
MaxBirth == 2

InitPlain ==
    \/ InitWith(FcfsPolicies,
                ScriptsOf(NrProcs, Descriptors(1..MaxWork, {0}, 0..MaxBirth, 0))
                \cup ScriptsOf(MaxProcs, Descriptors(1..MaxWork, {0}, 0..MaxBirth, 0)))
    \/ InitWith(PrioPolicies,
                ScriptsOf(NrProcs, Descriptors(1..MaxWork, 0..MAX_PRIO, 0..MaxBirth, 0)))

SpecPlain == InitPlain /\ [][Next]_vars

\* The priority policies on the scripts of MaxProcs processes, listed in the
\* order of their start ticks, whose only acquisition is resource 0 at age 0,
\* so that several processes wait for it
AskFirst ==
    {d \in Descriptors(1..MaxLifespan, 0..MAX_PRIO, 0..MaxBirth, MaxPlan) :
        Requests(d, 0, 0)}

InitWaiters ==
    InitWith(PrioPolicies,
             {sc \in ScriptsOf(MaxProcs, AskFirst) :
                 \A p \in 1..(MaxProcs - 1) : sc[p].start <= sc[p + 1].start})

SpecWaiters == InitWaiters /\ [][Next]_vars

\* FIFO, SJF and Priority on scripts with longer lifespans, so that a runner
\* has work left after it has released a resource
InitKeep ==
    \/ InitWith({"fifo", "sjf"},
                ScriptsOf(NrProcs, Descriptors(1..MaxLong, {0}, 0..MaxStart, MaxPlan)))
    \/ InitWith({"prio"},
                ScriptsOf(NrProcs, Descriptors(1..MaxLong, 0..MAX_PRIO, 0..MaxStart, MaxPlan)))

SpecKeep == InitKeep /\ [][Next]_vars

\* SJF and SRTF on scripts without acquisitions whose lifespans are 1, the
\* initial value of min, or one more
AroundMin == {1, MIN_INIT, MIN_INIT + 1}

InitAroundMin ==
    InitWith({"sjf", "srtf"},
             ScriptsOf(NrProcs, Descriptors(AroundMin, {0}, 0..MaxStart, 0)))

SpecAroundMin == InitAroundMin /\ [][Next]_vars

\* the ages at which an entry of a plan holds its resource
HeldAges(e) == e.at..(e.at + e.duration - 1)

\* no two entries of the plan d.plan have the same resource at one age
Apart(d) ==
    \A i, j \in 1..Len(d.plan) :
        (i # j /\ d.plan[i].resource_id = d.plan[j].resource_id)
           => HeldAges(d.plan[i]) \cap HeldAges(d.plan[j]) = {}

\* FIFO and SJF on the scripts in which no process asks for a resource while
\* it holds it
InitApart ==
    InitWith({"fifo", "sjf"},
             {sc \in ScriptsOf(NrProcs, Descriptors(1..MaxLifespan, {0}, 0..MaxStart,
                                                    MaxPlanFcfs)) :
                 \A p \in 1..NrProcs : Apart(sc[p])})

SpecApart == InitApart /\ [][Next]_vars

\* Priority+Aging on the scripts of MaxProcs processes without acquisitions,
\* listed in the order of their start ticks
InitAging ==
    InitWith({"pa"},
             {sc \in ScriptsOf(MaxProcs, Descriptors(1..MaxLong, 0..MAX_PRIO, 0..MaxBirth, 0)) :
                 \A p \in 1..(MaxProcs - 1) : sc[p].start <= sc[p + 1].start})

SpecAging == InitAging /\ [][Next]_vars

\* the loop of __do_simulation has been left, by break or by abort()
Ended == pc \in {"done", "abort"}

\* The loop of __do_simulation goes on as long as it has not been left: this
\* is weak fairness of Next, with the enabledness of Next written out as
\* ~Ended (every position of the loop body has a next step).
FairPlain == SpecPlain /\ ([]<>Ended \/ []<><<Next>>_vars)

(***************************************************************************)
(* Where a process is.                                                     *)
(***************************************************************************)
\* the processes met on a walk of the list of head h
InQueue(h) == SeqRange(list_for_each(M, h).ents)

\* the queues a process is linked into
QueuesOf(p) == {h \in Heads : p \in InQueue(h)}

\* the process that is executing the tick in progress
Executing == IF pc \in {"acquire", "release"} THEN {current} ELSE {}

\* the resources owned by p
Owned(p) == {r \in Rids : owner[r] = p}

\* the resources p has a held entry for
Held(p) == {holding[p][i].resource_id : i \in 1..Len(holding[p])}

\* a process has held entries only for resources it owns
HeldOnlyByOwner == \A p \in Loaded : Held(p) \subseteq Owned(p)

\* the step leaves every owned resource with its owner or with none
OwnerOnlyReleased ==
    \A r \in Rids : owner[r] # NULL => owner'[r] \in {owner[r], NULL}

\* the step is a schedule() call that returns a process
Selects == pc = "schedule" /\ pc' = "retire" /\ current' # NULL

\* before the step, p's prio is not below that of any process in the ready
\* queue
NotBelowReady(p) == \A q \in InQueue(readyqueue) : prio[p] >= prio[q]

\* a PIP requester has just been refused by an owner of higher prio
OwnerHigher ==
    /\ policy = "pip"
    /\ event.kind = "acquire"
    /\ ~event.ok
    /\ owner[event.rid] \in Loaded \ {event.pid}
    /\ prio[owner[event.rid]] > prio[event.pid]

(***************************************************************************)
(* C1: under every policy, no process is linked into more than one of the  *)
(* fork queue, the ready queue, a wait queue and the running slot at the   *)
(* same time, and none is linked twice into one queue (every queue is a    *)
(* well-formed list), also on ticks where the running process calls        *)
(* acquire.                                                                *)
(***************************************************************************)
C1_OnePlace ==
    /\ \A h \in Heads : list_for_each(M, h).end = "ok"
    /\ \A p \in Loaded :
          Cardinality(QueuesOf(p)) + (IF p \in Executing THEN 1 ELSE 0) <= 1

(***************************************************************************)
(* C2: under every policy and for every script with lifespans >= 0, every  *)
(* process has 0 <= age <= lifespan in every reachable state, and no step  *)
(* decreases an age.                                                       *)
(***************************************************************************)
C2_AgeWithinLifespan ==
    [][\A p \in Loaded : /\ age'[p] >= age[p]
                         /\ 0 <= age'[p]
                         /\ age'[p] <= lifespan[p]]_vars

(***************************************************************************)
(* C3: under every policy a process exits on the tick where its age first  *)
(* equals its lifespan: its exit event is the one of the first tick        *)
(* boundary after the tick in which the age got there, it exits at most    *)
(* once, once its age has reached its lifespan it is exited when the next  *)
(* tick begins, and it is never selected to run with no work left.         *)
(***************************************************************************)
C3_ExitWhenDone ==
    \A p \in Loaded :
       /\ Len(exit_tick[p]) <= 1
       /\ Len(exit_tick[p]) = 1 =>
             /\ Len(done_tick[p]) = 1
             /\ exit_tick[p][1] = done_tick[p][1] + 1
       /\ (pc = "dispatch" /\ Len(done_tick[p]) >= 1 /\ ticks > done_tick[p][1])
             => p \in freed
       /\ (pc = "acquire" /\ current = p) => age[p] < lifespan[p]

(***************************************************************************)
(* C4: for scripts whose entries have at >= 0, duration >= 1 and           *)
(* at + duration <= lifespan, under each of the eight policies none of the *)
(* three assertions of __exit_process fails.                               *)
(***************************************************************************)
C4_ExitAssertionsHold ==
    fault \notin {"assert_exit_list", "assert_exit_holding", "assert_exit_acquire"}

(***************************************************************************)
(* C5: resource ownership is exclusive under every policy: a process has a *)
(* held entry for a resource only while it is the owner of that resource,  *)
(* and no step makes a process the owner of a resource that another        *)
(* process owns (an owned resource changes hands only by being released).  *)
(***************************************************************************)
C5_ExclusiveOwnership == []HeldOnlyByOwner /\ [][OwnerOnlyReleased]_vars

\* a process has just been refused a resource that another process owns and
\* holds
C5_Contended ==
    /\ event.kind = "acquire"
    /\ ~event.ok
    /\ owner[event.rid] \in Loaded \ {event.pid}
    /\ event.rid \in Held(owner[event.rid])
    /\ event.rid \notin Held(event.pid)

(***************************************************************************)
(* C6 as stated: under Priority, Priority+Aging, PCP and PIP, on every     *)
(* tick on which a process is chosen to run, its priority at the moment of *)
(* the selection is not lower than the priority of any process that is in  *)
(* the ready queue at that moment, also when the previous runner is kept.  *)
(***************************************************************************)
C6_ChosenNotBelowReady ==
    [][(policy \in PrioPolicies /\ Selects) => NotBelowReady(current')]_vars

(***************************************************************************)
(* C6 amended: under Priority+Aging, PCP and PIP on every tick on which a  *)
(* process is chosen, and under Priority on every tick on which the        *)
(* previous runner is not kept (there is none, it waits or it has no work  *)
(* left), the priority of the chosen process at the moment of the          *)
(* selection is not lower than that of any process in the ready queue at   *)
(* that moment.                                                            *)
(***************************************************************************)
C6_PickedNotBelowReady ==
    [][(/\ policy \in PrioPolicies
        /\ Selects
        /\ policy = "prio" => ~KeepsCurrent(M, current))
       => NotBelowReady(current')]_vars

\* the runner has just been preempted by a process of higher baseline
C6_Preempted ==
    /\ policy \in {"pa", "pcp", "pip"}
    /\ pc = "retire"
    /\ prev # NULL
    /\ current \notin {NULL, prev}
    /\ status[prev] = "RUNNING"
    /\ prev \in InQueue(readyqueue)
    /\ prio_orig[current] > prio_orig[prev]

(***************************************************************************)
(* C7: under PCP, at every tick boundary every process that owns a         *)
(* resource has prio MAX_PRIO.                                             *)
(***************************************************************************)
C7_OwnerAtCeiling ==
    (policy = "pcp" /\ pc = "fork")
       => \A p \in Loaded : Owned(p) # {} => prio[p] = MAX_PRIO

(***************************************************************************)
(* C8: under PCP, right after a process has released a resource its prio   *)
(* is its prio_orig, and within the release the prio is restored while the *)
(* process still owns the resource and the wait queue is as it was; the    *)
(* ownership is cleared next, and only then is a waiter taken off the wait *)
(* queue.                                                                  *)
(***************************************************************************)
C8_RestoredFirst ==
    (policy = "pcp" /\ event.kind = "release" /\ event.ok)
       => LET st == event.stages
          IN  /\ Len(st) = 3
              /\ st[1].prio = prio_orig[event.pid]
              /\ st[1].owner = event.pid
              /\ st[1].waiters = event.was.waiters
              /\ st[2].prio = prio_orig[event.pid]
              /\ st[2].owner = NULL
              /\ st[2].waiters = event.was.waiters
              /\ st[3].prio = prio_orig[event.pid]
              /\ prio[event.pid] = prio_orig[event.pid]

\* a PCP release that wakes a waiter
C8_ReleasedToWaiter ==
    /\ policy = "pcp"
    /\ event.kind = "release"
    /\ event.ok
    /\ event.was.waiters # <<>>
    /\ event.stages[3].waiters # event.was.waiters

(***************************************************************************)
(* C9: under PIP, when the running process fails to acquire a resource,    *)
(* the owner's prio becomes the requester's if it was lower and is left as *)
(* it was otherwise, and no other process's prio changes.                  *)
(***************************************************************************)
C9_InheritOnly ==
    [][(policy = "pip" /\ pc = "acquire" /\ event'.kind = "acquire" /\ ~event'.ok)
       => LET o == owner[event'.rid]
          IN  /\ o # NULL
              /\ prio'[o] = IF prio[o] < prio[current] THEN prio[current] ELSE prio[o]
              /\ \A q \in Pids \ {o} : prio'[q] = prio[q]]_vars

\* a PIP owner has just inherited the prio of the requester it blocks
C9_Inherited ==
    /\ policy = "pip"
    /\ event.kind = "acquire"
    /\ ~event.ok
    /\ owner[event.rid] \in Loaded \ {event.pid}
    /\ prio[owner[event.rid]] = prio[event.pid]
    /\ prio[owner[event.rid]] > prio_orig[owner[event.rid]]

(***************************************************************************)
(* C10: under PIP, an owner whose prio is above its prio_orig keeps it (or *)
(* inherits a higher one) in every step until it releases a resource, and  *)
(* a release leaves the releaser with its prio_orig.                       *)
(***************************************************************************)
C10_KeptUntilRelease ==
    [][policy = "pip" =>
         \A o \in Loaded :
            /\ (Owned(o) # {} /\ prio[o] > prio_orig[o])
                  => \/ prio'[o] >= prio[o]
                     \/ event'.kind = "release" /\ event'.pid = o
            /\ (event'.kind = "release" /\ event'.pid = o /\ event'.ok)
                  => prio'[o] = prio_orig[o]]_vars

(***************************************************************************)
(* Queues before and after a step.                                         *)
(***************************************************************************)
\* the entries, in list order, of the list of head h under the next pointers
\* nxt
QueueIn(nxt, h) == WalkFrom(nxt, h, nxt[h], <<>>).ents

Queue(h) == QueueIn(list_next, h)

\* the tick of the most recent "=" event of p
LastWait(p) == wait_tick[p][Len(wait_tick[p])]

(***************************************************************************)
(* C11: under the FCFS acquire and release (FIFO, SJF, SRTF, Round-Robin), *)
(* every release by the owner wakes exactly the head of the resource's     *)
(* wait queue, which is the waiter whose most recent failed acquire is the *)
(* earliest: it goes to the tail of the ready queue with status READY, and *)
(* every other waiter, of this and of every other resource, stays where it *)
(* is.  With no waiter the release changes no queue and no status.         *)
(***************************************************************************)
C11_WokenInBlockingOrder ==
    [][(/\ policy \in FcfsPolicies
        /\ pc = "release"
        /\ event'.kind = "release"
        /\ event'.ok)
       => LET r  == event'.rid
              w  == Queue(waitqueue(r))
              rq == Queue(readyqueue)
          IN  /\ owner[r] = current
              /\ owner'[r] = NULL
              /\ \A x \in Rids \ {r} :
                    QueueIn(list_next', waitqueue(x)) = Queue(waitqueue(x))
              /\ IF w = <<>>
                 THEN /\ QueueIn(list_next', waitqueue(r)) = <<>>
                      /\ QueueIn(list_next', readyqueue) = rq
                      /\ status' = status
                 ELSE /\ QueueIn(list_next', waitqueue(r)) = Tail(w)
                      /\ QueueIn(list_next', readyqueue) = Append(rq, Head(w))
                      /\ status[Head(w)] = "WAIT"
                      /\ status' = [status EXCEPT ![Head(w)] = "READY"]
                      /\ \A q \in SeqRange(w) : wait_tick[q] # <<>>
                      /\ \A q \in SeqRange(Tail(w)) : LastWait(Head(w)) < LastWait(q)]_vars

\* an FCFS release has just woken the first of several waiters
C11_FirstOfSeveralWoken ==
    /\ policy \in FcfsPolicies
    /\ event.kind = "release"
    /\ event.ok
    /\ Len(event.was.waiters) >= 2
    /\ Queue(waitqueue(event.rid)) = Tail(event.was.waiters)
    /\ LastOf(Queue(readyqueue)) = Head(event.was.waiters)
    /\ status[Head(event.was.waiters)] = "READY"

Scheduled == pc = "schedule" /\ pc' = "retire"

\* the script is the two processes A (pid 1) and B (pid 2) with the lifespans
\* la and lb and the start ticks sa and sb
ScriptIs(la, sa, lb, sb) ==
    /\ Loaded = {1, 2}
    /\ lifespan[1] = la /\ starts_at[1] = sa
    /\ lifespan[2] = lb /\ starts_at[2] = sb

\* a process is executing a tick
Running == pc \in {"acquire", "release"}

(***************************************************************************)
(* C13: under Round-Robin without acquisitions, at every tick where the    *)
(* process that ran the tick before has work left: if the ready queue is   *)
(* not empty that process goes to the tail of the ready queue and the head *)
(* of the ready queue runs, and otherwise it goes on running.  So no       *)
(* process runs two ticks in a row while another is ready, and A and B of  *)
(* lifespan 3 that both start at tick 0 run A, B, A, B, A, B.              *)
(***************************************************************************)
C13_RotatesEveryTick ==
    /\ [][(/\ policy = "rr"
           /\ Scheduled
           /\ current # NULL
           /\ age[current] < lifespan[current])
          => LET rq == Queue(readyqueue)
             IN  IF rq # <<>>
                 THEN /\ current' = Head(rq)
                      /\ QueueIn(list_next', readyqueue) = Append(Tail(rq), current)
                 ELSE /\ current' = current
                      /\ QueueIn(list_next', readyqueue) = <<>>]_vars
    /\ [][(policy = "rr" /\ Scheduled /\ current # NULL /\ current' = current)
          => QueueIn(list_next', readyqueue) = <<>>]_vars
    /\ []((policy = "rr" /\ ScriptIs(3, 0, 3, 0))
          => /\ Running => (ticks <= 5 /\ current = (IF ticks % 2 = 0 THEN 1 ELSE 2))
             /\ pc = "done" => ticks = 6)

\* A and B of lifespan 3 have run their six ticks under Round-Robin
C13_Alternated ==
    /\ policy = "rr"
    /\ ScriptIs(3, 0, 3, 0)
    /\ pc = "done"
    /\ ticks = 6
    /\ freed = {1, 2}

\* the first process of q, in list order, whose lifespan is the least of q
Shortest(q) ==
    q[MinOf({i \in 1..Len(q) : \A j \in 1..Len(q) : lifespan[q[i]] <= lifespan[q[j]]})]

\* the sequence q without the process p
Without(q, p) == SelectSeq(q, LAMBDA x : x # p)

(***************************************************************************)
(* C14: under SJF with lifespans below 1000, whenever a new process is     *)
(* picked (there is no runner, or the runner has finished or is blocked)   *)
(* it has the least lifespan of the processes in the ready queue at that   *)
(* moment and is the first of those in ready-queue order.  So with         *)
(* {pid 1, lifespan 5, start 0} and {pid 2, lifespan 2, start 0}, pid 2    *)
(* runs its two ticks to completion before pid 1 runs at all.              *)
(***************************************************************************)
C14_ShortestPicked ==
    /\ [][(/\ policy = "sjf"
           /\ Scheduled
           /\ ~KeepsCurrent(M, current)
           /\ Queue(readyqueue) # <<>>)
          => /\ current' = Shortest(Queue(readyqueue))
             /\ QueueIn(list_next', readyqueue) = Without(Queue(readyqueue), current')]_vars
    /\ []((policy = "sjf" /\ ScriptIs(5, 0, 2, 0))
          => /\ (Running /\ ticks <= 1) => current = 2
             /\ (Running /\ current = 1) => (age[2] = 2 /\ ticks >= 2)
             /\ age[1] > 0 => age[2] = 2)

\* pid 1 of lifespan 5 starts to run after pid 2 of lifespan 2 has exited
C14_ShorterRanFirst ==
    /\ policy = "sjf"
    /\ ScriptIs(5, 0, 2, 0)
    /\ Running
    /\ current = 1
    /\ age[1] = 0
    /\ ticks = 2
    /\ 2 \in freed

(***************************************************************************)
(* C15: under SRTF with lifespans below 1000, a runner that is not blocked *)
(* and has work left is preempted at a tick if and only if some process in *)
(* the ready queue has a lifespan less than the runner's remaining time    *)
(* (lifespan - age); the preempted runner is in the ready queue afterwards *)
(* and the first ready process of least lifespan runs.  With a process of  *)
(* lifespan 5 that starts alone at tick 0 and one of lifespan 1 forked at  *)
(* tick 2, the new one runs at tick 2 and the first goes on at tick 3.     *)
(***************************************************************************)
C15_PreemptedByShorter ==
    /\ [][(policy = "srtf" /\ Scheduled /\ KeepsCurrent(M, current))
          => LET rq  == Queue(readyqueue)
                 rq2 == QueueIn(list_next', readyqueue)
             IN  IF \E q \in SeqRange(rq) : lifespan[q] < lifespan[current] - age[current]
                 THEN /\ current' = Shortest(rq)
                      /\ current' # current
                      /\ current \in SeqRange(rq2)
                      /\ Without(rq2, current) = Without(rq, current')
                 ELSE /\ current' = current
                      /\ rq2 = rq]_vars
    /\ []((policy = "srtf" /\ ScriptIs(5, 0, 1, 2))
          => (Running => current = (IF ticks = 2 THEN 2 ELSE 1)))

\* the process of lifespan 5 goes on at tick 3, after the one of lifespan 1
\* has run tick 2
C15_ResumedAtThree ==
    /\ policy = "srtf"
    /\ ScriptIs(5, 0, 1, 2)
    /\ Running
    /\ ticks = 3
    /\ current = 1
    /\ age[1] = 2
    /\ 2 \in freed

\* the processes that are in a wait queue
Blocked == {p \in Loaded : \E r \in Rids : p \in InQueue(waitqueue(r))}

(***************************************************************************)
(* C16: if some process stays blocked in a wait queue forever (two         *)
(* processes that each wait for a resource the other owns), the engine     *)
(* never terminates.  A process that is in a wait queue when the loop ends *)
(* is never woken, so this says: the loop of __do_simulation never ends    *)
(* while a process is in a wait queue.                                     *)
(***************************************************************************)
C16_NoEndWhileBlocked == pc = "done" => Blocked = {}

\* every process of the script has exited once, with its age at its lifespan
AllExited ==
    \A p \in Loaded : /\ Len(exit_tick[p]) = 1
                      /\ p \in freed
                      /\ status[p] = "EXIT"
                      /\ age[p] = lifespan[p]

(***************************************************************************)
(* C17: for every script without acquisitions, with lifespans in 1..999    *)
(* and baseline priorities in 0..MAX_PRIO, under each of the eight         *)
(* policies the simulation eventually ends through the empty-queues check, *)
(* and at that point every process of the script has exited exactly once   *)
(* with its age equal to its lifespan.                                     *)
(***************************************************************************)
C17_EndsWithAllExited ==
    /\ <>(pc = "done")
    /\ [](pc = "done" => AllExited)

\* a script of processes of different lifespans and starts has ended
C17_Ended ==
    /\ pc = "done"
    /\ AllExited
    /\ Loaded = {1, 2}
    /\ lifespan[1] > lifespan[2]
    /\ starts_at[1] < starts_at[2]
    /\ ticks > lifespan[1] + lifespan[2]

\* the processes of the sequence q whose start tick has come, in the order of q
Started(q) == SelectSeq(q, LAMBDA p : starts_at[p] <= ticks)

\* the processes of the sequence q whose start tick is still to come
NotStarted(q) == SelectSeq(q, LAMBDA p : starts_at[p] > ticks)

\* the processes of q are in script order
InScriptOrder(q) == \A i, j \in 1..Len(q) : i < j => q[i] < q[j]

(***************************************************************************)
(* C18: a process with start tick s goes from the fork queue to the tail   *)
(* of the ready queue in round s, before schedule() is called in that      *)
(* round, so that it can be selected in tick s and is never selected in an *)
(* earlier tick; the processes forked in one round enter the ready queue   *)
(* in script order, whatever the order of the start ticks in the script.   *)
(***************************************************************************)
C18_ForkedAtStartTick ==
    /\ [][(pc = "fork" /\ pc' = "schedule")
          => LET fq == Queue(__forkqueue)
                 rq == Queue(readyqueue)
             IN  /\ InScriptOrder(fq)
                 /\ QueueIn(list_next', readyqueue) = rq \o Started(fq)
                 /\ QueueIn(list_next', __forkqueue) = NotStarted(fq)
                 /\ \A p \in SeqRange(Started(fq)) :
                       starts_at[p] = ticks /\ status'[p] = "READY"]_vars
    /\ [](pc = "schedule"
          => \A p \in Loaded : p \in InQueue(__forkqueue) <=> starts_at[p] > ticks)
    /\ [](\A p \in Loaded : current = p => ticks >= starts_at[p])

\* processes 2 and 3 of start tick 1 have entered the ready queue in round 1,
\* in script order, with process 1 of start tick 2 still in the fork queue
C18_ForkedInScriptOrder ==
    /\ pc = "schedule"
    /\ ticks = 1
    /\ Loaded = {1, 2, 3}
    /\ starts_at[1] = 2 /\ starts_at[2] = 1 /\ starts_at[3] = 1
    /\ Queue(readyqueue) = <<2, 3>>
    /\ Queue(__forkqueue) = <<1>>
    /\ status[2] = "READY" /\ status[3] = "READY"

\* the step is a sched->acquire() call of the running process that fails
AcquireFails == pc = "acquire" /\ event'.kind = "acquire" /\ ~event'.ok

\* the step is a sched->acquire() call of the running process
AcquireCalled == pc = "acquire" /\ event'.kind = "acquire"

\* the step leaves the entries that p holds as they are, their remaining
\* durations included
HeldKept(p) ==
    /\ Len(holding'[p]) >= Len(holding[p])
    /\ \A k \in 1..Len(holding[p]) : holding'[p][k] = holding[p][k]

\* the step comes, in its tick, before the last due acquisition has succeeded
BeforeProgress ==
    \/ pc \in {"fork", "schedule", "retire", "dispatch"}
    \/ pc = "acquire" /\ Due # {}

(***************************************************************************)
(* C19: on a tick where an acquisition of the running process fails, the   *)
(* age of that process is unchanged, the remaining durations of the        *)
(* resources it holds are unchanged, no release is invoked, no other       *)
(* process's age changes, and the tick counter still advances by one.  No  *)
(* step of a tick changes an age, a remaining duration or an owned         *)
(* resource before the last due acquisition has succeeded, and the call    *)
(* that fails ends the tick with ticks + 1.                                *)
(***************************************************************************)
C19_BlockedTickFrame ==
    /\ [][AcquireFails
          => /\ age' = age
             /\ holding' = holding
             /\ owner' = owner
             /\ ticks' = ticks + 1
             /\ pc' = "fork"]_vars
    /\ [][BeforeProgress
          => /\ age' = age
             /\ \A p \in Loaded : HeldKept(p)
             /\ \A r \in Rids : owner[r] # NULL => owner'[r] = owner[r]
             /\ event'.kind \notin {"release", "hold"}]_vars

\* the running process, which holds a resource, has just been refused another
C19_RefusedWhileHolding ==
    /\ event.kind = "acquire"
    /\ ~event.ok
    /\ pc = "fork"
    /\ holding[event.pid] # <<>>
    /\ age[event.pid] < lifespan[event.pid]
    /\ wait_tick[event.pid] # <<>>
    /\ LastWait(event.pid) = ticks - 1

\* the position, in the pending plan of p, of the first entry that is due at
\* the age of p (0: there is none)
FirstDue(p) ==
    LET d == {j \in 1..Len(to_acquire[p]) : to_acquire[p][j].at = age[p]}
    IN  IF d = {} THEN 0 ELSE MinOf(d)

(***************************************************************************)
(* C20: when the running process has several plan entries due at its age   *)
(* and one of them fails, the entries acquired earlier in the tick stay    *)
(* owned and held by the process while it waits (nothing is rolled back),  *)
(* the entries after the failing one are not attempted, and when the       *)
(* process runs again at the same age only the entries that are still      *)
(* pending are attempted, in script order.  Every acquire call is for the  *)
(* first pending entry that is due; a call that succeeds moves that entry  *)
(* from the pending plan to the held entries, and a call that fails ends   *)
(* the tick and changes neither; the plan and the held entries of a        *)
(* process that is not executing do not change, and a process in a wait    *)
(* queue owns what it holds.                                               *)
(***************************************************************************)
C20_NoRollback ==
    /\ [][AcquireCalled
          => LET n  == FirstDue(current)
                 rs == to_acquire[current][n]
             IN  /\ n # 0
                 /\ event'.pid = current
                 /\ event'.rid = rs.resource_id
                 /\ IF event'.ok
                    THEN /\ to_acquire'[current] = RemoveAt(to_acquire[current], n)
                         /\ holding'[current] = Append(holding[current], rs)
                         /\ owner'[rs.resource_id] = current
                         /\ pc' = "acquire"
                    ELSE /\ to_acquire' = to_acquire
                         /\ holding' = holding
                         /\ owner' = owner
                         /\ pc' = "fork"]_vars
    /\ [][\A p \in Loaded :
             ~(Running /\ current = p)
                => (holding'[p] = holding[p] /\ to_acquire'[p] = to_acquire[p])]_vars
    /\ [](\A p \in Blocked : Held(p) \subseteq Owned(p))

\* a process that was refused the second of two entries due at one age has
\* run again at that age and acquired it, still holding the first
C20_RestAcquiredLater ==
    /\ event.kind = "acquire"
    /\ event.ok
    /\ wait_tick[event.pid] # <<>>
    /\ to_acquire[event.pid] = <<>>
    /\ Len(holding[event.pid]) = 2
    /\ holding[event.pid][1].at = age[event.pid]
    /\ holding[event.pid][2].at = age[event.pid]
    /\ holding[event.pid][1].resource_id # holding[event.pid][2].resource_id
    /\ holding[event.pid][2].resource_id = event.rid
    /\ Held(event.pid) \subseteq Owned(event.pid)

\* the running process has entries of its release loop still to visit, this
\* one included
ToVisit(p, k) == pc = "release" /\ current = p /\ k >= cursor

\* the step is the visit of a held entry whose remaining duration gets to 0
ReleaseDue ==
    /\ pc = "release"
    /\ cursor <= Len(holding[current])
    /\ holding[current][cursor].duration = 1

(***************************************************************************)
(* C21: a resource acquired at age a with declared duration d >= 1 is      *)
(* released by its holder at the end of the tick in which the holder's age *)
(* becomes a + d; only the ticks in which the holder made progress count,  *)
(* and the held entry is removed exactly when release is invoked.  Outside *)
(* the release loop every held entry has age + remaining duration =        *)
(* a + d with a remaining duration of 1 or more, and inside the loop the   *)
(* entries still to visit are one behind; release is invoked exactly in    *)
(* the visit that takes the remaining duration to 0, with age = a + d and  *)
(* in the tick of that age++, and its entry leaves the held entries in     *)
(* that step and in no other.                                              *)
(***************************************************************************)
C21_ReleasedAtAgePlusDuration ==
    /\ [](\A p \in Loaded : \A k \in 1..Len(holding[p]) :
            LET e == holding[p][k]
            IN  /\ e.declared >= 1
                /\ age[p] + e.duration
                      = e.at + e.declared + (IF ToVisit(p, k) THEN 1 ELSE 0)
                /\ e.duration >= 1)
    /\ [][(event'.kind = "release") <=> ReleaseDue]_vars
    /\ [][ReleaseDue
          => LET e == holding[current][cursor]
             IN  /\ age[current] = e.at + e.declared
                 /\ event'.pid = current
                 /\ event'.rid = e.resource_id
                 /\ ticks' = ticks
                 /\ event'.ok => /\ holding'[current] = RemoveAt(holding[current], cursor)
                                 /\ owner[e.resource_id] = current
                                 /\ owner'[e.resource_id] # current]_vars
    /\ [][\A p \in Loaded :
             Len(holding'[p]) < Len(holding[p]) => (ReleaseDue /\ current = p)]_vars
    /\ [][(pc = "release" /\ ticks' # ticks) => cursor > Len(holding[current])]_vars

\* a process is about to release a resource it has held for two ticks of
\* progress, with a tick in between in which it was refused another resource
C21_HeldAcrossBlockedTick ==
    /\ ReleaseDue
    /\ holding[current][cursor].declared = 2
    /\ wait_tick[current] # <<>>
    /\ age[current] = holding[current][cursor].at + 2
    /\ \E q \in Loaded \ {current} : age[q] > 0

\* the step is a sched->acquire() call of the running process for a resource
\* that has no owner
AcquiresFree == AcquireCalled /\ owner[event'.rid] = NULL

\* the first process of q, in list order, whose prio is the largest of q
Highest(q) ==
    q[MinOf({i \in 1..Len(q) : \A j \in 1..Len(q) : prio[q[i]] >= prio[q[j]]})]

(***************************************************************************)
(* C22: under Priority, Priority+Aging, PCP and PIP, an acquire of a free  *)
(* resource reports success, makes the requester the owner, sets its       *)
(* status to WAIT and appends it to the tail of the ready queue, which is  *)
(* then the ready queue of before with the requester behind it.  The       *)
(* requester goes on with its tick and ages by one once no entry is due    *)
(* any more, and at the next schedule() a runner that is in the ready      *)
(* queue has status WAIT, so that the policy picks the first process of    *)
(* the highest prio of the ready queue instead of keeping the runner.      *)
(***************************************************************************)
C22_AcquirerBackInReadyQueue ==
    /\ [][(policy \in PrioPolicies /\ AcquiresFree)
          => /\ event'.ok
             /\ owner'[event'.rid] = current
             /\ status'[current] = "WAIT"
             /\ list_prev'[readyqueue] = current
             /\ WalkFrom(list_next', readyqueue, list_next'[readyqueue], <<>>).end = "ok"
             /\ QueueIn(list_next', readyqueue) = Append(Queue(readyqueue), current)
             /\ pc' = "acquire"]_vars
    /\ [][(policy \in PrioPolicies /\ pc = "acquire" /\ Due = {})
          => age'[current] = age[current] + 1]_vars
    /\ []((policy \in PrioPolicies /\ pc = "schedule" /\ current \in InQueue(readyqueue))
          => status[current] = "WAIT")
    /\ [][(/\ policy \in PrioPolicies
           /\ Scheduled
           /\ current # NULL
           /\ status[current] = "WAIT"
           /\ Queue(readyqueue) # <<>>)
          => current' = Highest(Queue(readyqueue))]_vars

(***************************************************************************)
(* C23: under Priority, Priority+Aging, PCP and PIP with priorities >= 0,  *)
(* a release clears the owner of the resource and, if its wait queue is    *)
(* not empty, wakes exactly one waiter: the first, in wait-queue order, of *)
(* those with the largest current prio.  That waiter had status WAIT, gets *)
(* status READY and goes to the tail of the ready queue; every other       *)
(* waiter, of this and of every other resource, stays where it is.  With   *)
(* an empty wait queue no queue and no status changes.                     *)
(***************************************************************************)
C23_HighestWaiterWoken ==
    [][(/\ policy \in PrioPolicies
        /\ pc = "release"
        /\ event'.kind = "release"
        /\ event'.ok)
       => LET r  == event'.rid
              w  == Queue(waitqueue(r))
              rq == Queue(readyqueue)
          IN  /\ owner[r] = current
              /\ owner'[r] = NULL
              /\ \A x \in Rids \ {r} :
                    QueueIn(list_next', waitqueue(x)) = Queue(waitqueue(x))
              /\ IF w = <<>>
                 THEN /\ QueueIn(list_next', waitqueue(r)) = <<>>
                      /\ QueueIn(list_next', readyqueue) = rq
                      /\ status' = status
                 ELSE /\ QueueIn(list_next', waitqueue(r)) = Without(w, Highest(w))
                      /\ QueueIn(list_next', readyqueue) = Append(rq, Highest(w))
                      /\ status[Highest(w)] = "WAIT"
                      /\ status' = [status EXCEPT ![Highest(w)] = "READY"]]_vars

\* a release has just woken the second of two waiters, which has the higher
\* prio, and left the first in the wait queue
C23_LaterHigherWoken ==
    /\ policy \in PrioPolicies
    /\ event.kind = "release"
    /\ event.ok
    /\ Len(event.was.waiters) = 2
    /\ prio[event.was.waiters[2]] > prio[event.was.waiters[1]]
    /\ Queue(waitqueue(event.rid)) = <<event.was.waiters[1]>>
    /\ LastOf(Queue(readyqueue)) = event.was.waiters[2]
    /\ status[event.was.waiters[2]] = "READY"
    /\ status[event.was.waiters[1]] = "WAIT"

\* prio after the "if (prc->prio < MAX_PRIO) prc->prio++" of pa_schedule
Aged(p) == IF prio[p] < MAX_PRIO THEN prio[p] + 1 ELSE prio[p]

(***************************************************************************)
(* C24: under Priority+Aging, at every call of schedule(): a runner that   *)
(* has work left and is not waiting is preempted, which puts it at the     *)
(* tail of the ready queue, exactly when some process in the ready queue   *)
(* has a prio >= the runner's, and is otherwise selected again; every      *)
(* process that is in the ready queue after the decision and was not       *)
(* selected has its prio increased by exactly one unless it is MAX_PRIO    *)
(* already; and the prio of the selected process is set to its prio_orig.  *)
(***************************************************************************)
C24_PreemptAgeReset ==
    [][(policy = "pa" /\ Scheduled)
       => LET rq  == Queue(readyqueue)
              rq2 == QueueIn(list_next', readyqueue)
              sel == current'
          IN  /\ KeepsCurrent(M, current)
                    => IF \E q \in SeqRange(rq) : prio[q] >= prio[current]
                       THEN /\ sel \in SeqRange(rq)
                            /\ rq2 = Append(Without(rq, sel), current)
                       ELSE /\ sel = current
                            /\ rq2 = rq
              /\ ~KeepsCurrent(M, current) => rq2 = Without(rq, sel)
              /\ \A q \in SeqRange(rq2) : q # sel => prio'[q] = Aged(q)
              /\ sel # NULL => prio'[sel] = prio_orig[sel]]_vars

\* the runner has just been preempted by a process of the same prio and has
\* aged, in the ready queue, to one above its baseline
C24_PreemptedByEqual ==
    /\ policy = "pa"
    /\ pc = "retire"
    /\ event.kind = "schedule"
    /\ prev # NULL
    /\ current \notin {NULL, prev}
    /\ age[prev] < lifespan[prev]
    /\ status[prev] = "RUNNING"
    /\ LastOf(Queue(readyqueue)) = prev
    /\ prio_orig[current] = prio_orig[prev]
    /\ prio[prev] = prio_orig[prev] + 1
    /\ prio[current] = prio_orig[current]

\* !list_empty(&p->list) under the next pointers nxt: p is linked into a queue
Linked(nxt, p) == nxt[p] # p

\* the step belongs to the tick of the runner, or is the fork that follows it
InTick == pc \in {"acquire", "release", "fork"} /\ current # NULL

C26_ReleaseAssertionsHold ==
    /\ fault \notin {"assert_release_owner", "assert_waiter_status"}
    /\ event.kind = "release" => event.ok

\* a release of the Priority policy has got past both assertions and woken the
\* one waiter of the resource
C26_WokenPastAssertions ==
    /\ policy = "prio"
    /\ event.kind = "release"
    /\ event.ok
    /\ fault = "none"
    /\ event.was.owner = event.pid
    /\ Len(event.was.waiters) = 1
    /\ status[event.was.waiters[1]] = "READY"
    /\ event.was.waiters[1] \in InQueue(readyqueue)
    /\ owner[event.rid] = NULL

\* the work p has left
Remaining(p) == lifespan[p] - age[p]

\* the processes schedule() can choose from: the ready queue, and the runner if
\* it has work left and is not waiting
Candidates ==
    InQueue(readyqueue) \cup (IF KeepsCurrent(M, current) THEN {current} ELSE {})

(***************************************************************************)
(* C27: under SRTF without resources, at every tick the process selected   *)
(* to run has the least remaining time (lifespan - age) among the previous *)
(* runner, if it has work left, and all processes in the ready queue,      *)
(* those that were preempted earlier and so have age > 0 included.         *)
(***************************************************************************)
C27_LeastRemainingSelected ==
    [][(policy = "srtf" /\ Scheduled /\ Candidates # {})
       => /\ current' \in Candidates
          /\ \A q \in Candidates : Remaining(current') <= Remaining(q)]_vars

\* schedule() goes to pick_next with a ready queue that is not empty
PicksNext == ~KeepsCurrent(M, current) /\ InQueue(readyqueue) # {}

(***************************************************************************)
(* C28: for lifespans of any size, MIN_INIT and more included, a pick of   *)
(* sjf_schedule or srtf_schedule from a ready queue that is not empty      *)
(* returns a process of the least lifespan in the queue and leaves it      *)
(* outside the queue, and srtf_schedule returns the runner when the runner *)
(* has work left and the ready queue is empty.                             *)
(***************************************************************************)
C28_PickWithLargeLifespans ==
    [][(policy \in {"sjf", "srtf"} /\ Scheduled)
       => /\ PicksNext
             => /\ current' \in InQueue(readyqueue)
                /\ \A q \in InQueue(readyqueue) : lifespan[current'] <= lifespan[q]
                /\ list_empty(M', current')
          /\ (policy = "srtf" /\ KeepsCurrent(M, current)
                /\ InQueue(readyqueue) = {})
             => current' = current]_vars

(***************************************************************************)
(* C29: under FIFO and SJF, on the scripts whose acquisitions fit in the   *)
(* lifespan and in which no process asks for a resource while it holds it, *)
(* no acquire call fails: no process is in a wait queue or has status      *)
(* WAIT, and no tick is a blocked tick.                                    *)
(***************************************************************************)
C29_NoAcquireFails ==
    /\ event.kind = "acquire" => event.ok
    /\ Blocked = {}
    /\ \A p \in Pids : status[p] # "WAIT" /\ wait_tick[p] = <<>>

\* the runner holds two resources and a process of the ready queue is still to
\* ask for one of them
C29_WantedWhileHeld ==
    /\ current # NULL
    /\ Len(holding[current]) = 2
    /\ \E q \in InQueue(readyqueue) : \E i \in 1..Len(to_acquire[q]) :
          owner[to_acquire[q][i].resource_id] = current

\* the processes of the script that are linked into no queue and have not exited
Stray == {p \in Loaded : list_empty(M, p) /\ status[p] # "EXIT"}

(***************************************************************************)
(* C30: whenever the simulation loop ends, every process of the script has *)
(* exited: none is left in a resource wait queue, none is left unexited    *)
(* outside all queues, and no resource still has an owner.                 *)
(***************************************************************************)
C30_EndsWithNothingLeft ==
    pc = "done" => /\ \A p \in Loaded : p \in freed /\ status[p] = "EXIT"
                   /\ \A r \in Rids : InQueue(waitqueue(r)) = {}
                   /\ Stray = {}
                   /\ \A r \in Rids : owner[r] = NULL

\* a tick has just ended: the engine is back at the top of its loop
TickEnded == pc = "fork" /\ ticks > 0 /\ fault = "none"

\* the resources in whose wait queue p is linked
WaitsFor(p) == {r \in Rids : p \in InQueue(waitqueue(r))}

(***************************************************************************)
(* C31: at the end of every tick, under every policy, every process in the *)
(* ready queue has status READY, a process has status WAIT exactly if it   *)
(* is linked into the wait queue of exactly one resource, and at most one  *)
(* process has status RUNNING, which is the process selected for the tick. *)
(***************************************************************************)
C31_StatusAgreesWithLocation ==
    TickEnded
       => /\ \A p \in InQueue(readyqueue) : status[p] = "READY"
          /\ \A p \in Loaded : status[p] = "WAIT" <=> Cardinality(WaitsFor(p)) = 1
          /\ Cardinality({p \in Loaded : status[p] = "RUNNING"}) <= 1
          /\ \A p \in Loaded : status[p] = "RUNNING" => p = current

(***************************************************************************)
(* C32: for baseline priorities in 0..MAX_PRIO, in every reachable state   *)
(* and under every policy each process has prio_orig <= prio <= MAX_PRIO,  *)
(* prio_orig never changes, and under FIFO, SJF, SRTF, Round-Robin and     *)
(* plain Priority prio equals prio_orig.                                   *)
(***************************************************************************)
C32_PrioWithinBounds ==
    /\ [](\A p \in Loaded : prio_orig[p] <= prio[p] /\ prio[p] <= MAX_PRIO)
    /\ [][prio_orig' = prio_orig]_vars
    /\ [](policy \in FcfsPolicies \cup {"prio"} => prio = prio_orig)

\* under Priority+Aging a process of the ready queue has been aged from below
\* MAX_PRIO to MAX_PRIO and schedule() is about to look at it again
C32_AgedToTheTop ==
    /\ policy = "pa"
    /\ pc = "schedule"
    /\ \E p \in InQueue(readyqueue) : prio[p] = MAX_PRIO /\ prio_orig[p] < MAX_PRIO

(***************************************************************************)
(* C33: the engine is work-conserving.  For lifespans of at least 1 and    *)
(* priorities of at least 0, under every policy, schedule() returns no     *)
(* process only when the ready queue is empty after the forks of the       *)
(* round, and whenever the ready queue is not empty at scheduling time     *)
(* schedule() returns one process of the script.                           *)
(***************************************************************************)
C33_WorkConserving ==
    [][(pc = "schedule" /\ \A p \in Loaded : lifespan[p] >= 1)
       => /\ (Scheduled /\ current' = NULL) => list_empty(M, readyqueue)
          /\ ~list_empty(M, readyqueue) => (Scheduled /\ current' \in Loaded)]_vars

\* the schedule() call of the round has been made
AfterSchedule == pc \in {"retire", "dispatch", "acquire", "release"}

\* the ticks a process of baseline priority q may wait in the ready queue
WaitBound(q) == (MAX_PRIO - q) + Cardinality(Loaded)

(***************************************************************************)
(* C34: under Priority+Aging without acquisitions, with N processes in the *)
(* script, a process that enters the ready queue with priority q is        *)
(* selected within (MAX_PRIO - q) + N ticks of entering it, however many   *)
(* processes of higher baseline priority are runnable: a process that is   *)
(* still in the ready queue after the schedule() of a round entered it     *)
(* fewer than (MAX_PRIO - q) + N ticks before.                             *)
(***************************************************************************)
C34_WaitingBounded ==
    (policy = "pa" /\ AfterSchedule)
       => \A p \in InQueue(readyqueue) :
             ticks - queued_tick[p] < WaitBound(prio_orig[p])

\* a process of baseline priority 0 is selected while a process of baseline
\* priority MAX_PRIO that has work left is in the ready queue
C34_LowOverHigh ==
    /\ policy = "pa"
    /\ pc = "retire"
    /\ current # NULL
    /\ prio_orig[current] = 0
    /\ ticks - queued_tick[current] >= MAX_PRIO
    /\ \E h \in InQueue(readyqueue) : prio_orig[h] = MAX_PRIO /\ age[h] < lifespan[h]

=============================================================================
